---------------------------- MODULE Spec2Model ----------------------------
(***************************************************************************)
(* A model of relearn.hpp: the policy table (class policy), the            *)
(* deterministic Q-learning update (struct q_learning) and the             *)
(* frequency-based update (struct q_probabilistic).                        *)
(*                                                                         *)
(* value_type (double) is modelled by exact rationals <<n, d>>, d > 0, in  *)
(* lowest terms; std::size_t counters are naturals far below 2^64.         *)
(* std::unordered_map is a function whose DOMAIN is the set of stored      *)
(* keys; a key is found through the key type's operator==.                 *)
(***************************************************************************)
EXTENDS Integers, Sequences, FiniteSets, TLC

(***************************************************************************)
(* Bounds of the model.                                                    *)
(***************************************************************************)
\* longest episode handed to operator()
MaxLen == 3
\* work of one behaviour that mixes both algorithms and direct updates:
\* the links handed to operator() (an empty episode counts one) plus the
\* policy::update calls the caller makes in between
MaxWork == 4
\* the same for a behaviour of q_probabilistic calls alone
MaxProbWork == 6

(***************************************************************************)
(* value_type arithmetic.                                                  *)
(***************************************************************************)
Abs(x) == IF x < 0 THEN -x ELSE x

RECURSIVE Gcd(_, _)
Gcd(x, y) == IF y = 0 THEN x ELSE Gcd(y, x % y)

\* the value n/d in lowest terms with a positive denominator
Norm(n, d) ==
    LET g == Gcd(Abs(n), Abs(d))
        sgn == IF d < 0 THEN -1 ELSE 1
    IN  <<(sgn * n) \div g, (sgn * d) \div g>>

Num(n) == <<n, 1>>
Zero == Num(0)
RAdd(x, y) == Norm(x[1] * y[2] + y[1] * x[2], x[2] * y[2])
RSub(x, y) == Norm(x[1] * y[2] - y[1] * x[2], x[2] * y[2])
RMul(x, y) == Norm(x[1] * y[1], x[2] * y[2])
RLess(x, y) == x[1] * y[2] < y[1] * x[2]

(***************************************************************************)
(* Identity wrappers: state, action, link.                                 *)
(***************************************************************************)
\* state(value_type reward, state_trait trait)
state(reward, trait) == [trait |-> trait, reward |-> Num(reward)]

\* std::hash<state_trait> of the two trait values used here
trait_hash(t) == IF t = "t0" THEN 0 ELSE 1

\* state::hash
state_hash(x) == trait_hash(x.trait)

\* operator== as it would be if it compared the reward as well
state_eq_with_reward(x, y) == x.trait = y.trait /\ x.reward = y.reward

\* state::operator==
state_eq(x, y) == x.trait = y.trait

\* action::operator== (an action is modelled by its trait)
action_eq(x, y) == x = y

\* the state objects the caller builds: trait t1 comes with either reward
States == {state(0, "t0"), state(1, "t1"), state(0, "t1")}

Actions == {"a0", "a1"}

\* struct link
link(s, a) == [state |-> s, action |-> a]

\* the links episodes are built from when both algorithms are used
Links == {link(state(0, "t0"), "a0"), link(state(1, "t1"), "a0"),
          link(state(0, "t1"), "a0")}

\* the links episodes are built from when q_probabilistic is used alone
ProbLinks == {link(state(0, "t0"), "a0"), link(state(1, "t1"), "a0"),
              link(state(1, "t1"), "a1")}

\* values the caller passes to policy::update
Vals == {Num(-1), Num(1), Num(2)}

\* the updates the caller makes between two episodes
Seeds == {<<s, a, v>> \in States \X Actions \X Vals :
             s.reward = Num(0) /\ v # Num(1)}

\* the "no action" result of best_action (nullptr)
None == "nullptr"

(***************************************************************************)
(* std::unordered_map.  subscript is operator[]: the map afterwards, with  *)
(* a default-constructed value inserted under k when no stored key equals  *)
(* k.  lookup is the value stored under the key equal to k.                *)
(***************************************************************************)
EmptyMap == << >>

\* maps keyed by state objects: keys are compared by state::operator==
state_has(M, k) == \E x \in DOMAIN M : state_eq(x, k)

state_subscript(M, k, dflt) ==
    IF state_has(M, k) THEN M ELSE M @@ (k :> dflt)

state_lookup(M, k) == M[CHOOSE x \in DOMAIN M : state_eq(x, k)]

\* M with the value under the (present) key equal to k replaced by v
state_store(M, k, v) ==
    [x \in DOMAIN M |-> IF state_eq(x, k) THEN v ELSE M[x]]

\* maps keyed by action objects: keys are compared by action::operator==
action_has(M, k) == \E x \in DOMAIN M : action_eq(x, k)

action_subscript(M, k, dflt) ==
    IF action_has(M, k) THEN M ELSE M @@ (k :> dflt)

action_lookup(M, k) == M[CHOOSE x \in DOMAIN M : action_eq(x, k)]

action_store(M, k, v) ==
    [x \in DOMAIN M |-> IF action_eq(x, k) THEN v ELSE M[x]]

(***************************************************************************)
(* class policy: __policies__ is State -> (Action -> value).  Every        *)
(* member goes through operator[], so each comes as the value returned     *)
(* and the table left behind.                                              *)
(***************************************************************************)
\* __policies__[s_t]
policies_at(P, s) == state_subscript(P, s, EmptyMap)

\* policy::actions, the table afterwards
actions_post(P, s) == policies_at(P, s)

\* policy::actions, the map returned
actions(P, s) == state_lookup(policies_at(P, s), s)

\* update as it would be with += in place of =
update_accumulate(P, s, a, q) ==
    LET P1 == policies_at(P, s)
        m == action_subscript(state_lookup(P1, s), a, Zero)
    IN  state_store(P1, s,
              action_store(m, a, RAdd(action_lookup(m, a), q)))

\* update as it would be if it replaced the state's map by the one entry
update_replace_map(P, s, a, q) ==
    LET P1 == policies_at(P, s)
    IN  state_store(P1, s, a :> q)

\* policy::update: __policies__[s_t][a_t] = q
update(P, s, a, q) ==
    LET P1 == policies_at(P, s)
        m == action_subscript(state_lookup(P1, s), a, Zero)
    IN  state_store(P1, s, action_store(m, a, q))

\* policy::value, the table afterwards: __policies__[s_t][a_t] inserts 0
value_post(P, s, a) ==
    LET P1 == policies_at(P, s)
        m == action_subscript(state_lookup(P1, s), a, Zero)
    IN  state_store(P1, s, m)

\* policy::value, the value returned
value(P, s, a) == action_lookup(actions(value_post(P, s, a), s), a)

\* max_element as it would be with the comparator's operands swapped
max_element_swapped(m) ==
    {a \in DOMAIN m : \A b \in DOMAIN m : ~RLess(m[b], m[a])}

\* what std::max_element may return over map m under the comparator
\* lhs.second < rhs.second: an entry no other entry exceeds (which of
\* several depends on the iteration order of the unordered_map)
max_element(m) ==
    {a \in DOMAIN m : \A b \in DOMAIN m : ~RLess(m[a], m[b])}

\* policy::best_value, the table afterwards
best_value_post(P, s) == policies_at(P, s)

\* policy::best_value, the value returned
best_value(P, s) ==
    LET m == actions(P, s)
    IN  IF max_element(m) # {} THEN m[CHOOSE a \in max_element(m) : TRUE]
        ELSE Zero

\* policy::best_action, the table afterwards
best_action_post(P, s) == policies_at(P, s)

\* policy::best_action, the results it may return (None is nullptr)
best_action(P, s) ==
    LET m == actions(P, s)
    IN  IF max_element(m) # {} THEN max_element(m) ELSE {None}

(***************************************************************************)
(* State.                                                                  *)
(***************************************************************************)
VARIABLES
    policies,   \* policy::__policies__
    memory,     \* q_probabilistic::__memory__
    pc,         \* where the caller is: "idle", or inside an operator()
    episode,    \* the markov_chain argument of the operator() last entered
    i,          \* the loop index of the operator() in progress
    call,       \* the member last called by the caller, its arguments, result
    written,    \* the state objects policy::update was called with so far
    pre,        \* __policies__ and __memory__ when operator() was last entered
    run,        \* the q_probabilistic calls since the episode last changed
    work        \* links handed to operator() and direct updates so far

vars == <<policies, memory, pc, episode, i, call, written, pre, run, work>>

\* what the caller last did: member, state, action, value (argument or
\* result), action returned, map returned; over holds the value of the
\* call before it when both are update calls on the same (state, action)
Call(op, s, a, v, act, m, over) ==
    [op |-> op, s |-> s, a |-> a, v |-> v, act |-> act, map |-> m,
     over |-> over]

NoCall == Call("none", state(0, "t0"), None, Zero, None, EmptyMap, << >>)

Init ==
    /\ policies = EmptyMap
    /\ memory = EmptyMap
    /\ pc = "idle"
    /\ episode = << >>
    /\ i = 0
    /\ call = NoCall
    /\ written = {}
    /\ pre = [policies |-> EmptyMap, memory |-> EmptyMap]
    /\ run = [episode |-> << >>, n |-> 0, base |-> EmptyMap]
    /\ work = 0

learner == <<memory, pc, episode, i, pre, run, work>>

(***************************************************************************)
(* The caller uses the policy table.                                       *)
(***************************************************************************)
CallUpdate(s, a, v) ==
    /\ pc = "idle"
    /\ policies' = update(policies, s, a, v)
    /\ call' = Call("update", s, a, v, None, EmptyMap,
                    IF /\ call.op = "update"
                       /\ state_eq(call.s, s)
                       /\ action_eq(call.a, a)
                    THEN <<call.v>> ELSE << >>)
    /\ written' = written \cup {s}

CallValue(s, a) ==
    /\ pc = "idle"
    /\ policies' = value_post(policies, s, a)
    /\ call' = Call("value", s, a, value(policies, s, a), None, EmptyMap,
                    << >>)
    /\ UNCHANGED written

CallBestValue(s) ==
    /\ pc = "idle"
    /\ policies' = best_value_post(policies, s)
    /\ call' = Call("best_value", s, None, best_value(policies, s), None,
                    EmptyMap, << >>)
    /\ UNCHANGED written

CallBestAction(s) ==
    /\ pc = "idle"
    /\ \E r \in best_action(policies, s) :
          call' = Call("best_action", s, None, Zero, r, EmptyMap, << >>)
    /\ policies' = best_action_post(policies, s)
    /\ UNCHANGED written

CallActions(s) ==
    /\ pc = "idle"
    /\ policies' = actions_post(policies, s)
    /\ call' = Call("actions", s, None, Zero, None, actions(policies, s),
                    << >>)
    /\ UNCHANGED written

NextPolicy ==
    \/ \E s \in States, a \in Actions, v \in Vals :
          CallUpdate(s, a, v) /\ UNCHANGED learner
    \/ \E s \in States, a \in Actions : CallValue(s, a) /\ UNCHANGED learner
    \/ \E s \in States : CallBestValue(s) /\ UNCHANGED learner
    \/ \E s \in States : CallBestAction(s) /\ UNCHANGED learner
    \/ \E s \in States : CallActions(s) /\ UNCHANGED learner

SpecPolicy == Init /\ [][NextPolicy]_vars

(***************************************************************************)
(* struct q_learning.                                                      *)
(***************************************************************************)
\* learning rate and discount rate the instance is constructed with
alpha == <<1, 2>>
gamma == <<9, 10>>

\* the markov_chain arguments: deques of at most MaxLen links
Episodes == UNION {[1..n -> Links] : n \in 0..MaxLen}

ProbEpisodes == UNION {[1..n -> ProbLinks] : n \in 0..MaxLen}

\* the work of one operator() call
Cost(ep) == IF ep = << >> THEN 1 ELSE Len(ep)

\* n more units of work fit under limit
Budget(n, limit) == work + n <= limit /\ work' = work + n

\* episode[index], index counted from 0 as in the source
at(ep, index) == ep[index + 1]

\* ql_reward as it would be with the reward of the state moved to
ql_reward_next(ep, index) == at(ep, index + 1).state.reward

\* the reward of the update rule: auto r = step.state.reward()
ql_reward(ep, index) == at(ep, index).state.reward

\* ql_terminal as it would be with the learning rate applied to it
ql_terminal_scaled(step) == RMul(alpha, step.state.reward)

\* the value of the last step: step.state.reward()
ql_terminal(step) == step.state.reward

\* q_learning::q_value: the triplet returned and the table left behind
ql_q_value(ep, index, P) ==
    LET step == at(ep, index)
    IN  IF index < Len(ep) - 1
        THEN LET q == value(P, step.state, step.action)
                 P1 == value_post(P, step.state, step.action)
                 next == at(ep, index + 1)
                 q_next == best_value(P1, next.state)
                 P2 == best_value_post(P1, next.state)
                 r == ql_reward(ep, index)
             IN  [policy |-> P2, s |-> step.state, a |-> step.action,
                  v |-> RAdd(q, RMul(alpha,
                                     RSub(RAdd(r, RMul(gamma, q_next)), q)))]
        ELSE [policy |-> P, s |-> step.state, a |-> step.action,
              v |-> ql_terminal(step)]

\* q_learning::operator() is entered with episode ep (passed by value);
\* with an empty episode the loop body never runs and the call returns
QLearningCall(ep) ==
    /\ pc = "idle"
    /\ episode' = ep
    /\ i' = 0
    /\ pre' = [policies |-> policies, memory |-> memory]
    /\ IF ep = << >>
       THEN /\ pc' = "idle"
            /\ call' = Call("q_learning", NoCall.s, None, Zero, "returned",
                            EmptyMap, << >>)
       ELSE /\ pc' = "q_learning"
            /\ call' = call
    /\ UNCHANGED <<policies, memory, written, run>>

\* one iteration of the loop of q_learning::operator()
QLearningStep ==
    /\ pc = "q_learning"
    /\ LET t == ql_q_value(episode, i, policies)
       IN  /\ policies' = update(t.policy, t.s, t.a, t.v)
           /\ written' = written \cup {t.s}
    /\ IF i + 1 < Len(episode)
       THEN /\ i' = i + 1
            /\ UNCHANGED <<pc, call>>
       ELSE /\ i' = 0
            /\ pc' = "idle"
            /\ call' = Call("q_learning", NoCall.s, None, Zero, "returned",
                            EmptyMap, << >>)
    /\ UNCHANGED <<memory, episode, pre, run>>

(***************************************************************************)
(* struct q_probabilistic: __memory__ is State -> (Action -> (State ->     *)
(* count)).                                                                *)
(***************************************************************************)
\* discount rate the instance is constructed with
gamma_p == <<9, 10>>

\* __memory__[s][a], the memory afterwards
memory_at2(M, s, a) ==
    LET M1 == state_subscript(M, s, EmptyMap)
        t == action_subscript(state_lookup(M1, s), a, EmptyMap)
    IN  state_store(M1, s, t)

\* __memory__[s][a][n], the memory afterwards
memory_at3(M, s, a, n) ==
    LET M1 == memory_at2(M, s, a)
        t == state_lookup(M1, s)
        f == state_subscript(action_lookup(t, a), n, 0)
    IN  state_store(M1, s, action_store(t, a, f))

\* the count read by __memory__[s][a][n]
frequency(M, s, a, n) ==
    state_lookup(action_lookup(state_lookup(memory_at3(M, s, a, n), s),
                  a), n)

\* __memory__[s][a].size()
size(M, s, a) ==
    Cardinality(DOMAIN action_lookup(state_lookup(memory_at2(M, s, a), s),
                              a))

\* observed as it would be with s_n taken from episode[i]
observed_self(ep, index) ==
    [s |-> at(ep, index).state, a |-> at(ep, index).action,
     n |-> at(ep, index).state]

\* the transition the accounting loop records at index: s_t, a_t, s_n
observed(ep, index) ==
    [s |-> at(ep, index).state, a |-> at(ep, index).action,
     n |-> at(ep, index + 1).state]

\* increment as it would be with = 1 in place of ++
increment_assign(M, s, a, n) ==
    LET M1 == memory_at3(M, s, a, n)
        t == state_lookup(M1, s)
        f == action_lookup(t, a)
    IN  state_store(M1, s,
              action_store(t, a, state_store(f, n, 1)))

\* increment as it would be if it replaced the counts of (s, a) by the one
\* count it raises
increment_forget(M, s, a, n) ==
    LET M1 == memory_at3(M, s, a, n)
        t == state_lookup(M1, s)
        f == action_lookup(t, a)
    IN  state_store(M1, s,
              action_store(t, a,
                    state_store(EmptyMap, n, state_lookup(f, n) + 1)))

\* __memory__[s_t][a_t][s_n]++
increment(M, s, a, n) ==
    LET M1 == memory_at3(M, s, a, n)
        t == state_lookup(M1, s)
        f == action_lookup(t, a)
    IN  state_store(M1, s,
              action_store(t, a,
                    state_store(f, n, state_lookup(f, n) + 1)))

\* size_t / size_t: the quotient is truncated before it becomes a
\* value_type
prob(f, d) == Num(f \div d)

\* the value of the last step: step.state.reward()
qp_terminal(step) == step.state.reward

\* q_probabilistic::q_value: the triplets it may return, with the table
\* and the memory left behind.  The operands of the division are
\* evaluated in either order, so the size is read before or after
\* __memory__[s][a][n] has inserted its entry; a zero divisor is a fault.
qp_q_value(ep, index, P, M) ==
    LET step == at(ep, index)
    IN  IF index < Len(ep) - 1
        THEN LET P1 == value_post(P, step.state, step.action)
                 next == at(ep, index + 1)
                 q_next == best_value(P1, next.state)
                 P2 == best_value_post(P1, next.state)
                 r == step.state.reward
                 M1 == memory_at3(M, step.state, step.action, next.state)
                 f == frequency(M, step.state, step.action, next.state)
             IN  {[policy |-> P2, memory |-> M1, s |-> step.state,
                   a |-> step.action, fault |-> (d = 0),
                   v |-> IF d = 0 THEN Zero
                         ELSE RAdd(RMul(prob(f, d), r),
                                   RMul(gamma_p, RMul(q_next, prob(f, d))))] :
                    d \in {size(M, step.state, step.action),
                           size(M1, step.state, step.action)}}
        ELSE {[policy |-> P, memory |-> M, s |-> step.state,
               a |-> step.action, fault |-> FALSE, v |-> qp_terminal(step)]}

\* q_probabilistic::operator() is entered with episode ep; the accounting
\* loop skips the last index, so it has work only for two links or more
QProbCall(ep) ==
    /\ pc = "idle"
    /\ episode' = ep
    /\ i' = 0
    /\ pre' = [policies |-> policies, memory |-> memory]
    /\ run' = IF run.n > 0 /\ run.episode = ep
              THEN [run EXCEPT !.n = run.n + 1]
              ELSE [episode |-> ep, n |-> 1, base |-> memory]
    /\ IF ep = << >>
       THEN /\ pc' = "idle"
            /\ call' = Call("q_probabilistic", NoCall.s, None, Zero,
                            "returned", EmptyMap, << >>)
       ELSE /\ pc' = IF Len(ep) > 1 THEN "qp_account" ELSE "qp_update"
            /\ call' = call
    /\ UNCHANGED <<policies, memory, written>>

\* one iteration of the first loop of q_probabilistic::operator()
QProbAccount ==
    /\ pc = "qp_account"
    /\ LET o == observed(episode, i)
       IN  memory' = increment(memory, o.s, o.a, o.n)
    /\ IF i + 1 < Len(episode) - 1
       THEN i' = i + 1 /\ pc' = pc
       ELSE i' = 0 /\ pc' = "qp_update"
    /\ UNCHANGED <<policies, episode, call, written, pre, run>>

\* one iteration of the second loop of q_probabilistic::operator()
QProbUpdate ==
    /\ pc = "qp_update"
    /\ \E t \in qp_q_value(episode, i, policies, memory) :
          /\ memory' = t.memory
          /\ IF t.fault
             THEN /\ pc' = "fault"
                  /\ policies' = t.policy
                  /\ UNCHANGED <<i, call, written>>
             ELSE /\ policies' = update(t.policy, t.s, t.a, t.v)
                  /\ written' = written \cup {t.s}
                  /\ IF i + 1 < Len(episode)
                     THEN /\ i' = i + 1
                          /\ UNCHANGED <<pc, call>>
                     ELSE /\ i' = 0
                          /\ pc' = "idle"
                          /\ call' = Call("q_probabilistic", NoCall.s, None,
                                          Zero, "returned", EmptyMap, << >>)
    /\ UNCHANGED <<episode, pre, run>>

\* the caller writes a value into the table between two episodes
Seed(s, a, v) ==
    /\ CallUpdate(s, a, v)
    /\ UNCHANGED <<memory, pc, episode, i, pre, run>>

\* both algorithms on one table, and direct updates
NextLearn ==
    \/ \E ep \in Episodes : Budget(Cost(ep), MaxWork) /\ QLearningCall(ep)
    \/ QLearningStep /\ UNCHANGED work
    \/ \E ep \in Episodes : Budget(Cost(ep), MaxWork) /\ QProbCall(ep)
    \/ QProbAccount /\ UNCHANGED work
    \/ QProbUpdate /\ UNCHANGED work
    \/ \E u \in Seeds : Budget(1, MaxWork) /\ Seed(u[1], u[2], u[3])

SpecLearn == Init /\ [][NextLearn]_vars

\* one q_probabilistic instance fed episode after episode
NextProb ==
    \/ \E ep \in ProbEpisodes :
          Budget(Cost(ep), MaxProbWork) /\ QProbCall(ep)
    \/ QProbAccount /\ UNCHANGED work
    \/ QProbUpdate /\ UNCHANGED work

SpecProb == Init /\ [][NextProb]_vars

(***************************************************************************)
(* Properties of the policy table, under SpecPolicy.                       *)
(***************************************************************************)
\* policy::update was never called with a state equal to s
NeverUpdated(s) == ~\E w \in written : state_eq(w, s)

\* C1: whatever was read before, for a state s that update was never
\* called for, value(s, a) is 0 for every action a, best_value(s) is 0 and
\* best_action(s) is nullptr.
C1_DefaultZero ==
    \A s \in States :
        NeverUpdated(s) =>
            /\ \A a \in Actions : value(policies, s, a) = Zero
            /\ best_value(policies, s) = Zero
            /\ best_action(policies, s) = {None}

\* C2: update(s, a, v1) followed by update(s, a, v2) leaves
\* value(s, a) = v2, whatever the table held before.
C2_Overwrite ==
    (call.op = "update" /\ call.over # << >>) =>
        value(policies, call.s, call.a) = call.v

C2_Witness ==
    /\ call.op = "update"
    /\ call.over # << >>
    /\ call.over[1] # call.v
    /\ value(policies, call.s, call.a) = call.v

\* C3: for a state with recorded actions best_value is the maximum of the
\* recorded values and best_action is an action recorded with that value;
\* with none recorded best_value is 0 and best_action is nullptr.
C3_BestIsMax ==
    \A s \in States :
        LET m == actions(policies, s)
            bv == best_value(policies, s)
        IN  IF DOMAIN m # {}
            THEN /\ \E a \in DOMAIN m : m[a] = bv
                 /\ \A a \in DOMAIN m : ~RLess(bv, m[a])
                 /\ \A r \in best_action(policies, s) :
                        r \in DOMAIN m /\ m[r] = bv
            ELSE bv = Zero /\ best_action(policies, s) = {None}

\* a state whose recorded values are all negative and tie, and another
\* whose recorded values differ
C3_Witness ==
    \E s, u \in States :
        LET m == actions(policies, s)
            n == actions(policies, u)
        IN  /\ DOMAIN m = Actions
            /\ \A a \in Actions : RLess(m[a], Zero)
            /\ best_value(policies, s) = Num(-1)
            /\ best_action(policies, s) = Actions
            /\ DOMAIN n = Actions
            /\ n["a0"] = Num(1) /\ n["a1"] = Num(2)
            /\ best_value(policies, u) = Num(2)
            /\ best_action(policies, u) = {"a1"}

\* C10: whatever was read before, actions(s) is the empty map for a state
\* s that update was never called for.
C10_ActionsEmptyUnlessUpdated ==
    \A s \in States :
        NeverUpdated(s) => DOMAIN actions(policies, s) = {}

(***************************************************************************)
(* Properties of the two algorithms, under SpecLearn and SpecProb.         *)
(***************************************************************************)
\* the operator() of algorithm op has returned and nothing was called since
Returned(op) == pc = "idle" /\ call.op = op /\ call.act = "returned"

Applied == Returned("q_learning") \/ Returned("q_probabilistic")

\* the last link of a non-empty episode
Last(ep) == ep[Len(ep)]

\* C4: after operator() of either algorithm on a non-empty episode, the
\* value of the episode's last (state, action) is the reward its last
\* state carries, also when the pair occurs earlier in the episode.
C4_TerminalRule ==
    (Applied /\ episode # << >>) =>
        value(policies, Last(episode).state, Last(episode).action)
            = Last(episode).state.reward

\* the last pair also occurs earlier, there with another reward, and the
\* table held another value for it before the call
C4_WitnessAfter(op) ==
    /\ Returned(op)
    /\ Len(episode) > 1
    /\ \E j \in 1..(Len(episode) - 1) :
          /\ state_eq(episode[j].state, Last(episode).state)
          /\ action_eq(episode[j].action, Last(episode).action)
          /\ episode[j].state.reward # Last(episode).state.reward
    /\ Last(episode).state.reward = Num(1)
    /\ value(pre.policies, Last(episode).state, Last(episode).action)
           = Num(2)
    /\ value(policies, Last(episode).state, Last(episode).action) = Num(1)

C4_Witness == C4_WitnessAfter("q_learning")

C4_WitnessProb == C4_WitnessAfter("q_probabilistic")

\* a two-step episode over two different states, the first with reward 0
\* and the last with reward 1
TwoStep(ep) ==
    /\ Len(ep) = 2
    /\ ~state_eq(ep[1].state, ep[2].state)
    /\ ep[1].state.reward = Num(0)
    /\ ep[2].state.reward = Num(1)

\* C5, as stated: with alpha = 0.5 and gamma = 0.9, q_learning applied once
\* to a two-step episode on a fresh table leaves value(s1, a1) = 1 and
\* value(s0, a0) = 0.45.
C5_OneStepFresh ==
    (Returned("q_learning") /\ TwoStep(episode) /\ DOMAIN pre.policies = {})
        => /\ value(policies, episode[2].state, episode[2].action) = Num(1)
           /\ value(policies, episode[1].state, episode[1].action)
                  = <<9, 20>>

\* C5, amended: on a fresh table the call leaves value(s1, a1) = 1 and
\* value(s0, a0) = 0, since best_value(s1) is still 0 when index 0 is
\* processed; 0.45 is what the call leaves when value(s0, a0) = 0 and
\* best_value(s1) = 1 held before it, as on a second call.
C5_OneStepForward ==
    (Returned("q_learning") /\ TwoStep(episode)) =>
        LET s0 == episode[1].state
            a0 == episode[1].action
        IN  /\ DOMAIN pre.policies = {} =>
                  /\ value(policies, episode[2].state, episode[2].action)
                         = Num(1)
                  /\ value(policies, s0, a0) = Zero
            /\ ( /\ value(pre.policies, s0, a0) = Zero
                 /\ best_value(value_post(pre.policies, s0, a0),
                               episode[2].state) = Num(1) )
               => value(policies, s0, a0) = <<9, 20>>

C5_Witness ==
    /\ Returned("q_learning")
    /\ TwoStep(episode)
    /\ DOMAIN pre.policies = {}
    /\ value(policies, episode[2].state, episode[2].action) = Num(1)
    /\ value(policies, episode[1].state, episode[1].action) = Zero

\* the second call of the same episode on the table the first one left
C5_WitnessSecond ==
    /\ Returned("q_learning")
    /\ TwoStep(episode)
    /\ DOMAIN pre.policies # {}
    /\ value(pre.policies, episode[1].state, episode[1].action) = Zero
    /\ best_value(pre.policies, episode[2].state) = Num(1)
    /\ value(policies, episode[1].state, episode[1].action) = <<9, 20>>

\* C6: operator() of either algorithm, called with an empty episode, ends
\* in an InvalidEpisode error and leaves table and memory as they were.
C6_EmptyEpisodeRejected ==
    (pc = "idle" /\ call.op \in {"q_learning", "q_probabilistic"}
                 /\ episode = << >>)
        => /\ call.act = "InvalidEpisode"
           /\ policies = pre.policies
           /\ memory = pre.memory

\* the transitions of episode ep: its indices but the last
Steps(ep) == 0..(Len(ep) - 2)

\* the count stored for the transition (s, a) -> n of link pair (x, y)
Count(M, x, y) == frequency(M, x.state, x.action, y.state)

\* how often the transition of index j occurs in ep
Occurrences(ep, j) ==
    Cardinality({k \in Steps(ep) :
                    /\ state_eq(at(ep, k).state, at(ep, j).state)
                    /\ action_eq(at(ep, k).action, at(ep, j).action)
                    /\ state_eq(at(ep, k + 1).state, at(ep, j + 1).state)})

\* the calls of run have all returned
RunDone == pc = "idle" /\ run.n >= 1

\* C7, as stated: N calls with the same episode raise the count of every
\* transition of the episode by exactly N, and no count ever falls below
\* what it was.
C7_ExactlyN ==
    RunDone =>
        /\ \A j \in Steps(run.episode) :
              Count(memory, at(run.episode, j), at(run.episode, j + 1))
                  = Count(run.base, at(run.episode, j),
                          at(run.episode, j + 1)) + run.n
        /\ \A s \in States, a \in Actions, n \in States :
              frequency(memory, s, a, n) >= frequency(run.base, s, a, n)

\* N calls with the same episode raise the count of each of its
\* transitions by N times the number of its occurrences in the episode
C7_NTimesOccurrences ==
    RunDone =>
        \A j \in Steps(run.episode) :
            Count(memory, at(run.episode, j), at(run.episode, j + 1))
                = Count(run.base, at(run.episode, j), at(run.episode, j + 1))
                  + run.n * Occurrences(run.episode, j)

\* no step lowers a count
C7_NoDecrease ==
    \A s \in States, a \in Actions, n \in States :
        frequency(memory', s, a, n) >= frequency(memory, s, a, n)

\* C7, amended: N calls with the same episode raise the count of every
\* transition of the episode by N times the number of indices at which it
\* occurs in the episode (by exactly N when it occurs once), and no count
\* ever decreases.
C7_Accounting == [](C7_NTimesOccurrences) /\ [][C7_NoDecrease]_vars

\* two calls of a three-link episode whose two transitions are the same
C7_Witness ==
    /\ RunDone
    /\ run.n = 2
    /\ Len(run.episode) = 3
    /\ Occurrences(run.episode, 0) = 2
    /\ Count(memory, at(run.episode, 0), at(run.episode, 1))
           = Count(run.base, at(run.episode, 0), at(run.episode, 1)) + 4

\* C8: the value the update loop writes at a non-last index is
\* prob * r + gamma * (q_next * prob) with prob the exact ratio f / d of
\* the recorded count f to the number d of recorded successors.
C8_ExactRatio ==
    [][(pc = "qp_update" /\ i < Len(episode) - 1 /\ pc' # "fault") =>
          LET step == at(episode, i)
              next == at(episode, i + 1)
              r == step.state.reward
              q_next == best_value(value_post(policies, step.state,
                                              step.action), next.state)
              f == frequency(memory, step.state, step.action, next.state)
              d == size(memory, step.state, step.action)
              ratio == Norm(f, d)
          IN  value(policies', step.state, step.action)
                  = RAdd(RMul(ratio, r), RMul(gamma_p, RMul(q_next, ratio)))
       ]_vars

\* C9: whenever the update loop is about to compute prob for a non-last
\* step, the count and the number of recorded successors it divides are
\* both at least 1, its reads insert nothing into the memory, and no call
\* ends in a division by zero.
C9_ProbDefined ==
    /\ pc # "fault"
    /\ (pc = "qp_update" /\ i < Len(episode) - 1) =>
          LET step == at(episode, i)
              next == at(episode, i + 1)
          IN  /\ frequency(memory, step.state, step.action, next.state) >= 1
              /\ size(memory, step.state, step.action) >= 1
              /\ memory_at3(memory, step.state, step.action, next.state)
                     = memory

\* the update loop divides a count accumulated over several calls by the
\* number of two recorded successors
C9_Witness ==
    /\ pc = "qp_update"
    /\ i < Len(episode) - 1
    /\ frequency(memory, at(episode, i).state, at(episode, i).action,
                 at(episode, i + 1).state) = 3
    /\ size(memory, at(episode, i).state, at(episode, i).action) = 2
    /\ run.n = 1
    /\ DOMAIN pre.memory # {}

\* the value the update rule gives at a non-last index of ep when q and
\* q_next are read from table P: q + alpha * (r + gamma * q_next - q)
RuleValue(ep, index, P) ==
    LET step == at(ep, index)
        q == value(P, step.state, step.action)
        q_next == best_value(P, at(ep, index + 1).state)
        r == step.state.reward
    IN  RAdd(q, RMul(alpha, RSub(RAdd(r, RMul(gamma, q_next)), q)))

\* C11: q_learning::operator() takes the indices 0, 1, ... in increasing
\* order and writes each result before it computes the next; at a non-last
\* index it writes q + alpha * (r + gamma * q_next - q) with q and q_next
\* read from the table as the writes for the lower indices left it and r
\* the reward of the current step's state.
C11_ForwardRule ==
    [][pc = "q_learning" =>
          /\ i' = IF i + 1 < Len(episode) THEN i + 1 ELSE 0
          /\ i < Len(episode) - 1 =>
                value(policies', at(episode, i).state, at(episode, i).action)
                    = RuleValue(episode, i, policies)
       ]_vars

\* how often the transition (s, a) -> n occurs in ep
TransitionsOf(ep, s, a, n) ==
    Cardinality({k \in Steps(ep) :
                    /\ at(ep, k).state.trait = s.trait
                    /\ at(ep, k).action = a
                    /\ at(ep, k + 1).state.trait = n.trait})

\* the counts are those at the entry of the call plus the occurrences in
\* the episode
AllCounted ==
    \A s \in States, a \in Actions, n \in States :
        frequency(memory, s, a, n)
            = frequency(pre.memory, s, a, n) + TransitionsOf(episode, s, a, n)

\* C12: one q_probabilistic call raises the count of each transition
\* (s, a) -> s' by the number of indices but the last at which the episode
\* makes it and leaves every other count as it was, and all of this is
\* done before the call's first policy update.
C12_AccountingPass ==
    /\ pc = "qp_account" => policies = pre.policies
    /\ (pc = "qp_update" \/ Returned("q_probabilistic")) => AllCounted

\* the update loop is about to make its first update: a transition made
\* twice has gained 2 over a count of earlier calls, one not made has kept
\* its count
C12_Witness ==
    /\ pc = "qp_update"
    /\ i = 0
    /\ policies = pre.policies
    /\ \E s \in States, a \in Actions, n \in States :
          /\ TransitionsOf(episode, s, a, n) = 2
          /\ frequency(pre.memory, s, a, n) >= 1
          /\ frequency(memory, s, a, n) = frequency(pre.memory, s, a, n) + 2
    /\ \E s \in States, a \in Actions, n \in States :
          /\ TransitionsOf(episode, s, a, n) = 0
          /\ frequency(pre.memory, s, a, n) >= 1
          /\ frequency(memory, s, a, n) = frequency(pre.memory, s, a, n)

\* C13: a state is identified by its trait alone: what update wrote with
\* one reward, value reads with any other reward, and actions, best_value
\* and best_action answer the same for two state objects of one trait.
C13_TraitIdentity ==
    /\ call.op = "update" =>
          \A y \in States :
              y.trait = call.s.trait => value(policies, y, call.a) = call.v
    /\ \A x, y \in States :
          x.trait = y.trait =>
              /\ \A a \in Actions :
                    value(policies, x, a) = value(policies, y, a)
              /\ actions(policies, x) = actions(policies, y)
              /\ best_value(policies, x) = best_value(policies, y)
              /\ best_action(policies, x) = best_action(policies, y)

\* update has just written a value under a state object whose reward is
\* not the one of the object the table keeps as its key, and the object
\* with the other reward reads it
C13_Witness ==
    /\ call.op = "update"
    /\ call.v # Zero
    /\ \E y \in DOMAIN policies :
          /\ y.trait = call.s.trait
          /\ y.reward # call.s.reward
          /\ value(policies, y, call.a) = call.v
          /\ best_value(policies, y) = call.v
          /\ best_action(policies, y) = {call.a}
          /\ actions(policies, y) = actions(policies, call.s)

\* (s, a) is the state and action of a link of ep
LinkOf(ep, s, a) ==
    \E k \in 1..Len(ep) : ep[k].state.trait = s.trait /\ ep[k].action = a

\* operator() of either algorithm is running or has returned
InOrAfterCall ==
    pc \in {"q_learning", "qp_account", "qp_update", "fault"} \/ Applied

\* C14: operator() of either algorithm changes the value of no (state,
\* action) pair that is not a link of the episode, whatever entries its
\* reads create, and q_learning::operator() leaves the observation counts
\* of q_probabilistic as they were.
C14_Frame ==
    /\ InOrAfterCall =>
          \A s \in States, a \in Actions :
              ~LinkOf(episode, s, a) =>
                  value(policies, s, a) = value(pre.policies, s, a)
    /\ (pc = "q_learning" \/ Returned("q_learning")) => memory = pre.memory

\* q_learning has returned: it changed the value of a link of the episode,
\* another action of the same state has kept the non-zero value it had, and
\* the counts an earlier q_probabilistic call made are still there
C14_Witness ==
    /\ Returned("q_learning")
    /\ memory # EmptyMap
    /\ memory = pre.memory
    /\ \E k \in 1..Len(episode), a \in Actions :
          LET s == episode[k].state
          IN  /\ ~LinkOf(episode, s, a)
              /\ value(pre.policies, s, a) # Zero
              /\ value(policies, s, a) = value(pre.policies, s, a)
              /\ value(policies, s, episode[k].action)
                    # value(pre.policies, s, episode[k].action)

\* the same for q_probabilistic
C14_WitnessProb ==
    /\ Returned("q_probabilistic")
    /\ \E k \in 1..Len(episode), a \in Actions :
          LET s == episode[k].state
          IN  /\ ~LinkOf(episode, s, a)
              /\ value(pre.policies, s, a) # Zero
              /\ value(policies, s, a) = value(pre.policies, s, a)
              /\ value(policies, s, episode[k].action)
                    # value(pre.policies, s, episode[k].action)

=============================================================================
